---- MODULE Spec2Model ----
(***************************************************************************)
(* Model of render-wasm/src/render.rs: the render state (three surfaces,   *)
(* image table, options, viewbox, cached frame), the recursive shape-tree  *)
(* walk with culling, and the cached fast-path redraw.                     *)
(*                                                                         *)
(* Numbers.  f32 values are kept as exact rationals over fixed units:      *)
(*   zoom is counted in tenths      (zoom 10 is 1.0, zoom 1 is 0.1),       *)
(*   dpr  is counted in halves      (dpr 2 is 1.0, dpr 7 is 3.5),          *)
(* and all the inputs are chosen so that the divisions are exact.          *)
(***************************************************************************)
EXTENDS Integers, Sequences, FiniteSets, TLC

VARIABLES final_surface, drawing_surface, debug_surface,
          cached_surface_image, options, viewbox, images,
          trace, last

vars == <<final_surface, drawing_surface, debug_surface,
          cached_surface_image, options, viewbox, images, trace, last>>

(***************************************************************************)
(* Bounds and input sets                                                   *)
(***************************************************************************)
MaxShapes == 3
MaxImages == 2

\* 1.0 as a zoom, 1.0 as a device-pixel ratio, the debug-visible bit, Uuid::nil()
ZoomUnit == 10
DprUnit == 2
DEBUG_VISIBLE == 1
NilId == 0

ShapeIds == 1..MaxShapes
ImageIds == 1..MaxImages
\* <<zoom, pan_x, pan_y>>
Views == {<<10, 0, 0>>, <<10, 50, 50>>, <<1, 0, 0>>, <<20, 0, 0>>}
DebugFlags == {0, 1}
Blobs == {"png", "gif", "bad"}
\* <<n, h, r>>: shapes 1..n, shape h hidden (0: none), root rectangle r
Tables ==
    {t \in {1, MaxShapes} \X (0..MaxShapes) \X {0, 1} :
        \/ t[2] = 0
        \/ t[2] \in {1, t[1]} /\ t[3] = 1}

(***************************************************************************)
(* Option<T>: None is the empty sequence, Some(x) the one-element sequence *)
(***************************************************************************)
None == <<>>
Some(x) == <<x>>

(***************************************************************************)
(* skia::Rect                                                              *)
(***************************************************************************)
Max(a, b) == IF a >= b THEN a ELSE b
Min(a, b) == IF a <= b THEN a ELSE b

RectLTRB(l, t, r, b) == [left |-> l, top |-> t, right |-> r, bottom |-> b]
RectXYWH(x, y, w, h) == RectLTRB(x, y, x + w, y + h)

IsEmpty(r) == ~(r.left < r.right /\ r.top < r.bottom)

\* self.contains(r): r is not empty, self is not empty, and r lies inside
Contains(a, r) ==
    /\ ~IsEmpty(r) /\ ~IsEmpty(a)
    /\ a.left <= r.left /\ a.top <= r.top
    /\ a.right >= r.right /\ a.bottom >= r.bottom

\* a.intersects(b): the overlap has positive width and height
Intersects(a, b) ==
    /\ Max(a.left, b.left) < Min(a.right, b.right)
    /\ Max(a.top, b.top) < Min(a.bottom, b.bottom)

(***************************************************************************)
(* crate::view::Viewbox                                                    *)
(***************************************************************************)
ViewArea(width, height, zoom, pan_x, pan_y) ==
    RectXYWH(-pan_x, -pan_y, (width * ZoomUnit) \div zoom, (height * ZoomUnit) \div zoom)

ViewboxNew(width, height) ==
    [width |-> width, height |-> height, zoom |-> ZoomUnit,
     pan_x |-> 0, pan_y |-> 0,
     area |-> ViewArea(width, height, ZoomUnit, 0, 0)]

set_wh(vb, width, height) ==
    [vb EXCEPT !.width = width, !.height = height,
               !.area = ViewArea(width, height, vb.zoom, vb.pan_x, vb.pan_y)]

set_all(vb, zoom, pan_x, pan_y) ==
    [vb EXCEPT !.zoom = zoom, !.pan_x = pan_x, !.pan_y = pan_y,
               !.area = ViewArea(vb.width, vb.height, zoom, pan_x, pan_y)]

(***************************************************************************)
(* The shape table handed to render_all and navigate (crate::shapes::Shape,*)
(* owned by the host).  Shapes 1..n are present; odd shapes are children   *)
(* of the root, an even shape is the child of the shape before it (and may *)
(* lie outside its parent's rectangle); at most one shape (h) is hidden.   *)
(* The root has no geometry: its selrect is either the empty rectangle     *)
(* (r = 0) or a rectangle around the scene's origin (r = 1).               *)
(***************************************************************************)
RootRect(r) == IF r = 0 THEN RectLTRB(0, 0, 0, 0) ELSE RectLTRB(0, 0, 10, 10)

Selrect(i) ==
    CASE i = 1 -> RectLTRB(600, 450, 780, 590)
      [] i = 2 -> RectLTRB(100, 100, 300, 200)
      [] i = 3 -> RectLTRB(350, 250, 500, 400)
      [] OTHER -> RectLTRB(100 * i, 50 * i, 100 * i + 150, 50 * i + 100)

Children(i, n) ==
    IF i = NilId
    THEN SelectSeq([k \in 1..n |-> k], LAMBDA k : k % 2 = 1)
    ELSE IF i % 2 = 1 /\ i + 1 <= n THEN <<i + 1>> ELSE <<>>

FillsOf(i) ==
    CASE i = NilId -> <<>>
      [] i % 3 = 1 -> <<[kind |-> "Solid", id |-> 0], [kind |-> "Image", id |-> 1]>>
      [] i % 3 = 2 -> <<[kind |-> "Image", id |-> 1], [kind |-> "Solid", id |-> 0]>>
      [] OTHER -> <<[kind |-> "Solid", id |-> 0]>>

KindOf(i) == IF i % 2 = 1 THEN "Rect" ELSE "Path"

\* opacity in percent
OpacityOf(i) == IF i % 2 = 1 THEN 100 ELSE 50

BlendModeOf(i) == IF i % 3 = 0 THEN "Multiply" ELSE "SrcOver"

\* r = 2: the root rectangle of r = 1, and shape 2 is listed as a child of shape 3
\* as well as of shape 1 (the child relation is acyclic but not a tree)
SharedChild(i, n, r) == IF r = 2 /\ i = 3 /\ n >= 3 THEN <<2>> ELSE <<>>

ShapeTable(n, h, r) ==
    [i \in 0..n |->
        [id |-> i,
         selrect |-> IF i = NilId THEN RootRect(r) ELSE Selrect(i),
         children |-> Children(i, n) \o SharedChild(i, n, r),
         hidden |-> (i # NilId /\ i = h),
         fills |-> FillsOf(i),
         kind |-> KindOf(i),
         opacity |-> OpacityOf(i),
         blend_mode |-> BlendModeOf(i)]]

(***************************************************************************)
(* Surfaces, canvases and the events a handler performs                    *)
(***************************************************************************)
Surface(w, h) == [w |-> w, h |-> h, matrix |-> <<>>, stack |-> <<>>, content |-> <<>>]

Ev(e, id, arg) == [ev |-> e, id |-> id, arg |-> arg]
Emit(st, e) == [st EXCEPT !.trace = Append(@, e)]

Item(e, id, arg, m, px) == [ev |-> e, id |-> id, arg |-> arg, m |-> m, px |-> px]
Mat(op, a, b, den) == [op |-> op, a |-> a, b |-> b, den |-> den]

Self ==
    [final_surface |-> final_surface, drawing_surface |-> drawing_surface,
     debug_surface |-> debug_surface, cached_surface_image |-> cached_surface_image,
     options |-> options, viewbox |-> viewbox, images |-> images,
     trace |-> <<>>]

Commit(st) ==
    /\ final_surface' = st.final_surface
    /\ drawing_surface' = st.drawing_surface
    /\ debug_surface' = st.debug_surface
    /\ cached_surface_image' = st.cached_surface_image
    /\ options' = st.options
    /\ viewbox' = st.viewbox
    /\ images' = st.images
    /\ trace' = st.trace

(***************************************************************************)
(* CachedSurfaceImage, RenderOptions                                       *)
(***************************************************************************)
is_dirty_ignores_completeness(c, vb) == ~Contains(c.viewbox.area, vb.area)
is_dirty(c, vb) == ~c.has_all_shapes /\ ~Contains(c.viewbox.area, vb.area)

RenderOptionsDefault == [debug_flags |-> 0, dpr |-> None]

is_debug_visible(o) == (o.debug_flags \div DEBUG_VISIBLE) % 2 = 1

dpr(o) == IF o.dpr = None THEN DprUnit ELSE o.dpr[1]

(***************************************************************************)
(* RenderState: construction and the simple mutators                       *)
(***************************************************************************)
new(width, height) ==
    [final_surface |-> Surface(width, height),
     drawing_surface |-> Surface(width, height),
     debug_surface |-> Surface(width, height),
     cached_surface_image |-> None,
     options |-> RenderOptionsDefault,
     viewbox |-> ViewboxNew(width, height),
     images |-> [i \in {} |-> "png"],
     trace |-> <<>>]

Decodes(data) == data # "bad"

add_image_stores_before_decoding(st, id, data) ==
    [st |-> [st EXCEPT !.images = [i \in DOMAIN st.images \cup {id} |->
                                      IF i = id THEN data ELSE st.images[i]]],
     ret |-> IF Decodes(data) THEN "Ok" ELSE "Err"]
add_image(st, id, data) ==
    IF Decodes(data)
    THEN [st |-> [st EXCEPT !.images = [i \in DOMAIN st.images \cup {id} |->
                                           IF i = id THEN data ELSE st.images[i]]],
          ret |-> "Ok"]
    ELSE [st |-> st, ret |-> "Err"]

has_image(st, id) == id \in DOMAIN st.images

set_debug_flags(st, debug) == [st EXCEPT !.options.debug_flags = debug]

resize_keeps_debug_surface(st, width, height) ==
    LET dpr_width == (width * dpr(st.options)) \div DprUnit
        dpr_height == (height * dpr(st.options)) \div DprUnit
    IN  [Emit(st, Ev("create_target_surface", dpr_width, dpr_height))
            EXCEPT !.final_surface = Surface(dpr_width, dpr_height),
                   !.drawing_surface = Surface(dpr_width, dpr_height),
                   !.viewbox = set_wh(st.viewbox, width, height)]
resize_drops_record(st, width, height) ==
    LET dpr_width == (width * dpr(st.options)) \div DprUnit
        dpr_height == (height * dpr(st.options)) \div DprUnit
    IN  [Emit(st, Ev("create_target_surface", dpr_width, dpr_height))
            EXCEPT !.final_surface = Surface(dpr_width, dpr_height),
                   !.drawing_surface = Surface(dpr_width, dpr_height),
                   !.debug_surface = Surface(dpr_width, dpr_height),
                   !.viewbox = set_wh(st.viewbox, width, height),
                   !.cached_surface_image = None]
resize(st, width, height) ==
    LET dpr_width == (width * dpr(st.options)) \div DprUnit
        dpr_height == (height * dpr(st.options)) \div DprUnit
    IN  [Emit(st, Ev("create_target_surface", dpr_width, dpr_height))
            EXCEPT !.final_surface = Surface(dpr_width, dpr_height),
                   !.drawing_surface = Surface(dpr_width, dpr_height),
                   !.debug_surface = Surface(dpr_width, dpr_height),
                   !.viewbox = set_wh(st.viewbox, width, height)]

set_dpr_always_resizes(st, d) ==
    resize([st EXCEPT !.options.dpr = Some(d)], st.viewbox.width, st.viewbox.height)
set_dpr(st, d) ==
    IF Some(d) # st.options.dpr
    THEN resize([st EXCEPT !.options.dpr = Some(d)], st.viewbox.width, st.viewbox.height)
    ELSE st

(***************************************************************************)
(* Canvas primitives                                                       *)
(***************************************************************************)
flush(st) == Emit(st, Ev("flush", 0, 0))

translate(st, dx, dy, den) ==
    [st EXCEPT !.drawing_surface.matrix = Append(@, Mat("translate", dx, dy, den))]

scale(st, sx, sy, den) ==
    [st EXCEPT !.drawing_surface.matrix = Append(@, Mat("scale", sx, sy, den))]

reset_canvas(st) ==
    LET s1 == [Emit(st, Ev("clear_drawing", 0, 0))
                  EXCEPT !.drawing_surface.content = <<>>, !.drawing_surface.matrix = <<>>]
        s2 == [Emit(s1, Ev("clear_final", 0, 0))
                  EXCEPT !.final_surface.content = <<>>, !.final_surface.matrix = <<>>]
    IN  [Emit(s2, Ev("clear_debug", 0, 0))
            EXCEPT !.debug_surface.content = <<>>, !.debug_surface.matrix = <<>>]

\* canvas().save() on the final and on the drawing surface
Save(st) ==
    [st EXCEPT !.final_surface.stack = Append(@, st.final_surface.matrix),
               !.drawing_surface.stack = Append(@, st.drawing_surface.matrix)]

RestoreCanvas(s) ==
    IF s.stack = <<>> THEN s
    ELSE [s EXCEPT !.matrix = s.stack[Len(s.stack)],
                   !.stack = SubSeq(s.stack, 1, Len(s.stack) - 1)]

RestoreFinalOnly(st) ==
    [st EXCEPT !.final_surface = RestoreCanvas(@)]
\* canvas().restore() on the final and on the drawing surface
Restore(st) ==
    [st EXCEPT !.final_surface = RestoreCanvas(@),
               !.drawing_surface = RestoreCanvas(@)]

(***************************************************************************)
(* Fill renderer                                                           *)
(***************************************************************************)
DrawOnDrawing(st, e, id, arg) ==
    [Emit(st, Ev(e, id, arg))
        EXCEPT !.drawing_surface.content =
                   Append(@, Item(e, id, arg, st.drawing_surface.matrix, <<>>))]

render_fill_draws_missing_image(st, shape, k) ==
    LET fill == shape.fills[k]
        s0 == Emit(st, Ev("render_fill", shape.id, k))
    IN  IF fill.kind = "Image"
        THEN DrawOnDrawing(s0, "draw_image_in_container", shape.id, k)
        ELSE IF shape.kind = "Rect"
             THEN DrawOnDrawing(s0, "svg_render", shape.id, k)
             ELSE DrawOnDrawing(s0, "draw_path", shape.id, k)
render_fill(st, shape, k) ==
    LET fill == shape.fills[k]
        s0 == Emit(st, Ev("render_fill", shape.id, k))
    IN  IF fill.kind = "Image"
        THEN IF fill.id \in DOMAIN s0.images
             THEN DrawOnDrawing(s0, "draw_image_in_container", shape.id, k)
             ELSE s0
        ELSE IF shape.kind = "Rect"
             THEN DrawOnDrawing(s0, "svg_render", shape.id, k)
             ELSE DrawOnDrawing(s0, "draw_path", shape.id, k)

RECURSIVE render_fills_in_declared_order(_, _, _)
render_fills_in_declared_order(st, shape, k) ==
    IF k = 0 THEN st
    ELSE render_fill(render_fills_in_declared_order(st, shape, k - 1), shape, k)
\* for fill in shape.fills().rev(): fills k, k-1, ..., 1
RECURSIVE render_fills_rev(_, _, _)
render_fills_rev(st, shape, k) ==
    IF k = 0 THEN st
    ELSE render_fills_rev(render_fill(st, shape, k), shape, k - 1)

\* paint.set_blend_mode(shape.blend_mode), paint.set_alpha_f(shape.opacity)
Paint(shape) == [blend_mode |-> shape.blend_mode, alpha |-> shape.opacity]

render_single_shape(st, shape) ==
    LET s0 == Emit(st, Ev("render_single_shape", shape.id, 0))
        s1 == [s0 EXCEPT !.drawing_surface.matrix = Append(@, Mat("concat", shape.id, 0, 1))]
        s2 == render_fills_rev(s1, shape, Len(shape.fills))
        s3 == [Emit(s2, Ev("draw_drawing_on_final", shape.id, 0))
                  EXCEPT !.final_surface.content =
                             Append(@, Item("draw_surface", shape.id, Paint(shape),
                                            s2.final_surface.matrix,
                                            s2.drawing_surface.content))]
    IN  [Emit(s3, Ev("clear_drawing", shape.id, 0))
            EXCEPT !.drawing_surface.content = <<>>]

(***************************************************************************)
(* Debug overlay                                                           *)
(***************************************************************************)
render_debug_view(st) ==
    [Emit(st, Ev("render_debug_view", 0, 0))
        EXCEPT !.debug_surface.content =
                   Append(@, Item("view_rect", 0, 0, st.debug_surface.matrix, <<>>))]

render_debug_shape(st, shape, intersected) ==
    LET flag == IF intersected THEN 1 ELSE 0
    IN  [Emit(st, Ev("render_debug_shape", shape.id, flag))
            EXCEPT !.debug_surface.content =
                       Append(@, Item("shape_rect", shape.id, flag,
                                      st.debug_surface.matrix, <<>>))]

render_debug(st) ==
    LET s1 == render_debug_view(st)
    IN  [Emit(s1, Ev("draw_debug_on_final", 0, 0))
            EXCEPT !.final_surface.content =
                       Append(@, Item("draw_debug_surface", 0, 0,
                                      s1.final_surface.matrix,
                                      s1.debug_surface.content))]

(***************************************************************************)
(* Shape-tree renderer                                                     *)
(***************************************************************************)
IsCulledIgnoresHidden(st, shape) ==
    ~Intersects(shape.selrect, st.viewbox.area)
\* !shape.selrect.intersects(self.viewbox.area) || shape.hidden
IsCulled(st, shape) ==
    ~Intersects(shape.selrect, st.viewbox.area) \/ shape.hidden

\* the save depth and the transform of a canvas
CanvasState(s) == [depth |-> Len(s.stack), matrix |-> s.matrix]

\* an entry to or a return from render_shape_tree, with the two canvases as they are then
EvWalk(e, id, st) ==
    [ev |-> e, id |-> id, arg |-> 0,
     final |-> CanvasState(st.final_surface),
     drawing |-> CanvasState(st.drawing_surface)]

RECURSIVE render_shape_tree(_, _, _)
RECURSIVE render_children(_, _, _, _, _)

RECURSIVE render_children_visits_twice(_, _, _, _, _)
render_children_visits_twice(st, ids, k, shapes, is_complete) ==
    IF k > Len(ids) THEN [st |-> st, ret |-> is_complete]
    ELSE LET r1 == render_shape_tree(st, ids[k], shapes)
             r2 == render_shape_tree(r1.st, ids[k], shapes)
         IN  render_children_visits_twice(r2.st, ids, k + 1, shapes, r2.ret /\ is_complete)
\* for shape_id in shape.children: is_complete = render_shape_tree(..) && is_complete
render_children(st, ids, k, shapes, is_complete) ==
    IF k > Len(ids) THEN [st |-> st, ret |-> is_complete]
    ELSE LET r == render_shape_tree(st, ids[k], shapes)
         IN  render_children(r.st, ids, k + 1, shapes, r.ret /\ is_complete)

render_shape_tree(st, id, shapes) ==
    LET shape == shapes[id]
        is_complete == Contains(st.viewbox.area, shape.selrect)
        s0 == Emit(st, EvWalk("render_shape_tree", id, st))
    IN  IF id # NilId /\ IsCulled(s0, shape)
        THEN LET s1 == render_debug_shape(s0, shape, FALSE)
             IN  [st |-> Emit(s1, EvWalk("return_shape_tree", id, s1)), ret |-> is_complete]
        ELSE LET s1 == IF id # NilId THEN render_debug_shape(s0, shape, TRUE) ELSE s0
                 s2 == Save(s1)
                 s3 == IF id # NilId THEN render_single_shape(s2, shape) ELSE s2
                 r == render_children(s3, shape.children, 1, shapes, is_complete)
                 s4 == Restore(r.st)
             IN  [st |-> Emit(s4, EvWalk("return_shape_tree", id, s4)), ret |-> r.ret]

(***************************************************************************)
(* Full render, cached redraw, navigate                                    *)
(***************************************************************************)
image_snapshot(s) == [w |-> s.w, h |-> s.h, content |-> s.content]

needs_snapshot_always(st, generate_cached_surface_image) == TRUE
needs_snapshot_only_when_absent(st, generate_cached_surface_image) ==
    st.cached_surface_image = None
\* generate_cached_surface_image || self.cached_surface_image.is_none()
needs_snapshot(st, generate_cached_surface_image) ==
    generate_cached_surface_image \/ st.cached_surface_image = None

render_all_overlay_before_snapshot(st, shapes, generate_cached_surface_image) ==
    LET s1 == reset_canvas(Emit(st, Ev("render_all", 0, 0)))
        zd == s1.viewbox.zoom * dpr(s1.options)
        s2 == scale(s1, zd, zd, ZoomUnit * DprUnit)
        s3 == translate(s2, s2.viewbox.pan_x, s2.viewbox.pan_y, 1)
        r == render_shape_tree(s3, NilId, shapes)
        s4 == IF is_debug_visible(r.st.options) THEN render_debug(r.st) ELSE r.st
        s5 == IF needs_snapshot(s4, generate_cached_surface_image)
              THEN [Emit(s4, Ev("image_snapshot", 0, 0))
                       EXCEPT !.cached_surface_image =
                                  Some([image |-> image_snapshot(s4.final_surface),
                                        viewbox |-> s4.viewbox,
                                        has_all_shapes |-> r.ret])]
              ELSE s4
    IN  flush(s5)
render_all(st, shapes, generate_cached_surface_image) ==
    LET s1 == reset_canvas(Emit(st, Ev("render_all", 0, 0)))
        zd == s1.viewbox.zoom * dpr(s1.options)
        s2 == scale(s1, zd, zd, ZoomUnit * DprUnit)
        s3 == translate(s2, s2.viewbox.pan_x, s2.viewbox.pan_y, 1)
        r == render_shape_tree(s3, NilId, shapes)
        s4 == r.st
        s5 == IF needs_snapshot(s4, generate_cached_surface_image)
              THEN [Emit(s4, Ev("image_snapshot", 0, 0))
                       EXCEPT !.cached_surface_image =
                                  Some([image |-> image_snapshot(s4.final_surface),
                                        viewbox |-> s4.viewbox,
                                        has_all_shapes |-> r.ret])]
              ELSE s4
        s6 == IF is_debug_visible(s5.options) THEN render_debug(s5) ELSE s5
    IN  flush(s6)

render_all_from_cache_pans_by_new_zoom(st) ==
    LET s1 == reset_canvas(Emit(st, Ev("render_all_from_cache", 0, 0)))
    IN  IF s1.cached_surface_image = None
        THEN [st |-> s1, ret |-> "Err"]
        ELSE LET cached == s1.cached_surface_image[1]
                 s2 == Save(s1)
                 d == dpr(s2.options)
                 navigate_x == s2.viewbox.zoom * (s2.viewbox.pan_x - cached.viewbox.pan_x)
                 navigate_y == s2.viewbox.zoom * (s2.viewbox.pan_y - cached.viewbox.pan_y)
                 m == <<Mat("scale", s2.viewbox.zoom, s2.viewbox.zoom, cached.viewbox.zoom),
                        Mat("translate", navigate_x * d, navigate_y * d, ZoomUnit * DprUnit)>>
                 s3 == [s2 EXCEPT !.final_surface.matrix = @ \o m]
                 s4 == [Emit(s3, Ev("draw_image", 0, 0))
                           EXCEPT !.final_surface.content =
                                      Append(@, Item("draw_image", cached.image.w, cached.image.h,
                                                     s3.final_surface.matrix,
                                                     cached.image.content))]
             IN  [st |-> flush(Restore(s4)), ret |-> "Ok"]
render_all_from_cache_updates_record(st) ==
    LET s1 == reset_canvas(Emit(st, Ev("render_all_from_cache", 0, 0)))
    IN  IF s1.cached_surface_image = None
        THEN [st |-> s1, ret |-> "Err"]
        ELSE LET cached == s1.cached_surface_image[1]
                 s2 == Save(s1)
                 d == dpr(s2.options)
                 navigate_x == cached.viewbox.zoom * (s2.viewbox.pan_x - cached.viewbox.pan_x)
                 navigate_y == cached.viewbox.zoom * (s2.viewbox.pan_y - cached.viewbox.pan_y)
                 m == <<Mat("scale", s2.viewbox.zoom, s2.viewbox.zoom, cached.viewbox.zoom),
                        Mat("translate", navigate_x * d, navigate_y * d, ZoomUnit * DprUnit)>>
                 s3 == [s2 EXCEPT !.final_surface.matrix = @ \o m]
                 s4 == [Emit(s3, Ev("draw_image", 0, 0))
                           EXCEPT !.final_surface.content =
                                      Append(@, Item("draw_image", cached.image.w, cached.image.h,
                                                     s3.final_surface.matrix,
                                                     cached.image.content)),
                                  !.cached_surface_image[1].viewbox = s3.viewbox]
             IN  [st |-> flush(Restore(s4)), ret |-> "Ok"]
render_all_from_cache(st) ==
    LET s1 == reset_canvas(Emit(st, Ev("render_all_from_cache", 0, 0)))
    IN  IF s1.cached_surface_image = None
        THEN [st |-> s1, ret |-> "Err"]
        ELSE LET cached == s1.cached_surface_image[1]
                 s2 == Save(s1)
                 d == dpr(s2.options)
                 navigate_x == cached.viewbox.zoom * (s2.viewbox.pan_x - cached.viewbox.pan_x)
                 navigate_y == cached.viewbox.zoom * (s2.viewbox.pan_y - cached.viewbox.pan_y)
                 m == <<Mat("scale", s2.viewbox.zoom, s2.viewbox.zoom, cached.viewbox.zoom),
                        Mat("translate", navigate_x * d, navigate_y * d, ZoomUnit * DprUnit)>>
                 s3 == [s2 EXCEPT !.final_surface.matrix = @ \o m]
                 s4 == [Emit(s3, Ev("draw_image", 0, 0))
                           EXCEPT !.final_surface.content =
                                      Append(@, Item("draw_image", cached.image.w, cached.image.h,
                                                     s3.final_surface.matrix,
                                                     cached.image.content))]
             IN  [st |-> flush(Restore(s4)), ret |-> "Ok"]

navigate_without_force(st, shapes) ==
    IF st.cached_surface_image # None
    THEN IF is_dirty(st.cached_surface_image[1], st.viewbox)
         THEN [st |-> render_all(st, shapes, FALSE), ret |-> "Ok"]
         ELSE render_all_from_cache(st)
    ELSE [st |-> st, ret |-> "Ok"]
navigate_always_full(st, shapes) ==
    IF st.cached_surface_image # None
    THEN [st |-> render_all(st, shapes, TRUE), ret |-> "Ok"]
    ELSE [st |-> st, ret |-> "Ok"]
navigate_renders_when_empty(st, shapes) ==
    IF st.cached_surface_image # None
    THEN IF is_dirty(st.cached_surface_image[1], st.viewbox)
         THEN [st |-> render_all(st, shapes, TRUE), ret |-> "Ok"]
         ELSE render_all_from_cache(st)
    ELSE [st |-> render_all(st, shapes, TRUE), ret |-> "Ok"]
navigate_blits_when_empty(st, shapes) ==
    IF st.cached_surface_image # None /\ is_dirty(st.cached_surface_image[1], st.viewbox)
    THEN [st |-> render_all(st, shapes, TRUE), ret |-> "Ok"]
    ELSE render_all_from_cache(st)
navigate(st, shapes) ==
    IF st.cached_surface_image # None
    THEN IF is_dirty(st.cached_surface_image[1], st.viewbox)
         THEN [st |-> render_all(st, shapes, TRUE), ret |-> "Ok"]
         ELSE render_all_from_cache(st)
    ELSE [st |-> st, ret |-> "Ok"]

(***************************************************************************)
(* The state machine: one action per public operation                      *)
(***************************************************************************)
Last(op, result, force, a, b, c, pre) ==
    [op |-> op, result |-> result, force |-> force,
     a |-> a, b |-> b, c |-> c, pre |-> pre]

InitIn(S) ==
    \E sz \in S :
        LET st == new(sz[1], sz[2])
        IN  /\ final_surface = st.final_surface
            /\ drawing_surface = st.drawing_surface
            /\ debug_surface = st.debug_surface
            /\ cached_surface_image = st.cached_surface_image
            /\ options = st.options
            /\ viewbox = st.viewbox
            /\ images = st.images
            /\ trace = st.trace
            /\ last = Last("new", "Ok", FALSE, sz[1], sz[2], 0, None)

\* last.b: the bytes given; last.c: 1 when the table had an entry for id before the call
AddImageIn(I, B) ==
    \E id \in I, data \in B :
        LET r == add_image(Self, id, data)
        IN  /\ Commit(r.st)
            /\ last' = Last("add_image", r.ret, FALSE, id, data,
                            IF has_image(Self, id) THEN 1 ELSE 0, cached_surface_image)

AddImage == AddImageIn(ImageIds, Blobs)

HasImage ==
    \E id \in ImageIds :
        /\ Commit(Self)
        /\ last' = Last("has_image", IF has_image(Self, id) THEN "true" ELSE "false",
                        FALSE, id, 0, 0, cached_surface_image)

SetDebugFlags ==
    \E debug \in DebugFlags :
        /\ Commit(set_debug_flags(Self, debug))
        /\ last' = Last("set_debug_flags", "Ok", FALSE, debug, 0, 0, cached_surface_image)

\* last.b: 1 when the operation before this one was set_dpr with the same value;
\* last.c: the number of surface reallocations that operation made
SetDprIn(D) ==
    \E d \in D :
        LET repeated == last.op = "set_dpr" /\ last.a = d
            before == Len(SelectSeq(trace, LAMBDA e : e.ev = "create_target_surface"))
        IN  /\ Commit(set_dpr(Self, d))
            /\ last' = Last("set_dpr", "Ok", FALSE, d,
                            IF repeated THEN 1 ELSE 0,
                            IF repeated THEN before ELSE 0,
                            cached_surface_image)

ResizeIn(S) ==
    \E sz \in S :
        /\ Commit(resize(Self, sz[1], sz[2]))
        /\ last' = Last("resize", "Ok", FALSE, sz[1], sz[2], 0, cached_surface_image)

\* the host moves the view: viewbox.set_all(zoom, pan_x, pan_y)
SetViewIn(V) ==
    \E v \in V :
        /\ Commit([Self EXCEPT !.viewbox = set_all(@, v[1], v[2], v[3])])
        /\ last' = Last("set_view", "Ok", FALSE, v[1], v[2], v[3], cached_surface_image)

RenderAllIn(T) ==
    \E t \in T, force \in BOOLEAN :
        /\ Commit(render_all(Self, ShapeTable(t[1], t[2], t[3]), force))
        /\ last' = Last("render_all", "Ok", force, t[1], t[2], t[3], cached_surface_image)

NavigateIn(T) ==
    \E t \in T :
        LET r == navigate(Self, ShapeTable(t[1], t[2], t[3]))
        IN  /\ Commit(r.st)
            /\ last' = Last("navigate", r.ret, FALSE, t[1], t[2], t[3], cached_surface_image)

(***************************************************************************)
(* Spec: viewport changes, debug-flag changes, full renders and navigation *)
(* on an 800x600 canvas.                                                   *)
(***************************************************************************)
Init == InitIn({<<800, 600>>})

Next ==
    \/ SetViewIn(Views)
    \/ RenderAllIn(Tables)
    \/ NavigateIn(Tables)
    \/ SetDebugFlags

Spec == Init /\ [][Next]_vars

(***************************************************************************)
(* SpecSurface: construction, resize and device-pixel-ratio changes, with  *)
(* renders of one small scene in between.                                  *)
(***************************************************************************)
Sizes == {<<800, 600>>, <<401, 301>>, <<1, 1>>}
Dprs == {2, 4, 7}
SurfaceViews == {<<10, 0, 0>>, <<1, 0, 0>>}
SurfaceTables == {<<1, 0, 1>>}

InitSurface == InitIn(Sizes)

NextSurface ==
    \/ ResizeIn(Sizes)
    \/ SetDprIn(Dprs)
    \/ SetViewIn(SurfaceViews)
    \/ RenderAllIn(SurfaceTables)
    \/ NavigateIn(SurfaceTables)

SpecSurface == InitSurface /\ [][NextSurface]_vars

(***************************************************************************)
(* SpecImages: the image table is filled (and decoding fails) between      *)
(* renders of scenes whose shapes carry image fills.                       *)
(***************************************************************************)
ImageViews == {<<10, 0, 0>>, <<10, 50, 50>>}
ImageTables == {<<1, 0, 1>>, <<MaxShapes, 0, 1>>}

NextImages ==
    \/ AddImage
    \/ HasImage
    \/ SetViewIn(ImageViews)
    \/ RenderAllIn(ImageTables)
    \/ NavigateIn(ImageTables)

SpecImages == Init /\ [][NextImages]_vars

(***************************************************************************)
(* SpecPublic: every public operation, each with a few inputs, on one      *)
(* small scene.                                                            *)
(***************************************************************************)
PublicSizes == {<<400, 300>>}
PublicDprs == {4}
PublicViews == {<<10, 0, 0>>, <<20, 0, 0>>}
PublicTables == {<<1, 0, 1>>}

NextPublic ==
    \/ AddImageIn({1}, {"png", "bad"})
    \/ SetDebugFlags
    \/ SetDprIn(PublicDprs)
    \/ ResizeIn(PublicSizes)
    \/ SetViewIn(PublicViews)
    \/ RenderAllIn(PublicTables)
    \/ NavigateIn(PublicTables)

SpecPublic == Init /\ [][NextPublic]_vars

(***************************************************************************)
(* SpecNavigate: zoom, pan and device-pixel-ratio changes around renders   *)
(* and navigations of a scene that zoomed out is completely visible.       *)
(***************************************************************************)
NavigateDprs == {2, 4}
NavigateTables == {<<1, 0, 1>>}

NextNavigate ==
    \/ SetDprIn(NavigateDprs)
    \/ SetViewIn(Views)
    \/ RenderAllIn(NavigateTables)
    \/ NavigateIn(NavigateTables)

SpecNavigate == Init /\ [][NextNavigate]_vars

(***************************************************************************)
(* SpecForest: renders and navigations of shape tables whose child         *)
(* relation is acyclic: trees, and one table with a shared child.          *)
(***************************************************************************)
ForestTables ==
    {<<1, 0, 1>>, <<MaxShapes, 0, 1>>, <<MaxShapes, 1, 1>>, <<MaxShapes, 0, 2>>}

NextForest ==
    \/ SetViewIn(Views)
    \/ RenderAllIn(ForestTables)
    \/ NavigateIn(ForestTables)

SpecForest == Init /\ [][NextForest]_vars

(***************************************************************************)
(* SpecRecord: the life of the cached-frame record under size, ratio,      *)
(* zoom, pan and shape-table changes between renders and navigations.      *)
(***************************************************************************)
RecordViews == {<<10, 0, 0>>, <<20, 0, 0>>, <<10, 50, 50>>}
RecordTables == {<<1, 0, 1>>, <<MaxShapes, 0, 1>>}

NextRecord ==
    \/ ResizeIn(PublicSizes)
    \/ SetDprIn(PublicDprs)
    \/ SetViewIn(RecordViews)
    \/ RenderAllIn(RecordTables)
    \/ NavigateIn(RecordTables)

SpecRecord == Init /\ [][NextRecord]_vars

(***************************************************************************)
(* Vocabulary of the properties                                            *)
(***************************************************************************)
CountEv(e) == Cardinality({i \in DOMAIN trace : trace[i].ev = e})
CountEvId(e, id) == Cardinality({i \in DOMAIN trace : trace[i].ev = e /\ trace[i].id = id})
CountDebugRect(id, flag) ==
    Cardinality({i \in DOMAIN debug_surface.content :
                    /\ debug_surface.content[i].ev = "shape_rect"
                    /\ debug_surface.content[i].id = id
                    /\ debug_surface.content[i].arg = flag})

\* the handler that ran last walked the shape tree
Walked == CountEv("render_shape_tree") > 0
\* the handler that ran last blitted the cached snapshot and flushed once
Blitted == CountEv("draw_image") = 1 /\ CountEv("flush") = 1

\* the table the last render_all or navigate was given
LastShapes == ShapeTable(last.a, last.b, last.c)

\* geometry, stated on the corners of the rectangles
HasArea(r) == r.left < r.right /\ r.top < r.bottom
PointIn(x, y, a) == a.left <= x /\ x <= a.right /\ a.top <= y /\ y <= a.bottom
FullyContained(r, a) ==
    /\ HasArea(r) /\ HasArea(a)
    /\ \A x \in {r.left, r.right}, y \in {r.top, r.bottom} : PointIn(x, y, a)
Overlap(r, a) ==
    /\ r.left < a.right /\ a.left < r.right
    /\ r.top < a.bottom /\ a.top < r.bottom

\* the dirty rule in the words of the data model
Dirty(c, vb) == ~c.has_all_shapes /\ ~FullyContained(vb.area, c.viewbox.area)

ParentOf(shapes, i) ==
    CHOOSE p \in DOMAIN shapes : \E k \in DOMAIN shapes[p].children : shapes[p].children[k] = i

RECURSIVE Ancestors(_, _)
Ancestors(shapes, i) ==
    IF i = NilId THEN {}
    ELSE LET p == ParentOf(shapes, i) IN {p} \cup Ancestors(shapes, p)

CulledIn(shapes, vb, i) ==
    shapes[i].hidden \/ ~Overlap(shapes[i].selrect, vb.area)

\* the shapes the walk reaches: the root and every shape below no culled ancestor
Reached(shapes, vb) ==
    {i \in DOMAIN shapes :
        \A a \in Ancestors(shapes, i) \ {NilId} : ~CulledIn(shapes, vb, a)}

\* what the walk reports: every reached shape lies inside the visible area
WalkResult(shapes, vb) ==
    \A i \in Reached(shapes, vb) : FullyContained(shapes[i].selrect, vb.area)

Composites(content) == SelectSeq(content, LAMBDA it : it.ev = "draw_surface")

(***************************************************************************)
(* C1.  A cached-frame record is dirty for a viewbox iff it is not marked  *)
(* complete and the viewbox's visible area is not fully contained in the   *)
(* record's visible area.  Checked for the record of every reachable state *)
(* against the current viewbox and against every view the host can set.    *)
(***************************************************************************)
C1_DirtyIff ==
    cached_surface_image # None =>
        LET c == cached_surface_image[1]
        IN  \A vb \in {viewbox} \cup {set_all(viewbox, v[1], v[2], v[3]) : v \in Views} :
                is_dirty(c, vb) <=>
                    (~c.has_all_shapes /\ ~FullyContained(vb.area, c.viewbox.area))

C1_Witness ==
    /\ cached_surface_image # None
    /\ is_dirty(cached_surface_image[1], viewbox)
    /\ \E v \in Views :
          /\ ~cached_surface_image[1].has_all_shapes
          /\ ~is_dirty(cached_surface_image[1], set_all(viewbox, v[1], v[2], v[3]))

(***************************************************************************)
(* C2.  Whenever a render stores a cached-frame record and the walk        *)
(* reached a shape it culled (an "excluded" rectangle was drawn), the      *)
(* stored completeness flag is false.                                      *)
(***************************************************************************)
C2_CulledMeansIncomplete ==
    (/\ CountEv("image_snapshot") = 1
     /\ \E i \in DOMAIN trace : trace[i].ev = "render_debug_shape" /\ trace[i].arg = 0)
        => ~cached_surface_image[1].has_all_shapes

(***************************************************************************)
(* C3.  After a tree walk: a reached non-root shape that is hidden or does *)
(* not overlap the visible area has no fill rendered, none of its children *)
(* visited, and exactly one "excluded" rectangle; a reached non-root shape *)
(* that is visible and overlaps has exactly one "included" rectangle and   *)
(* its geometry rendered once.                                             *)
(***************************************************************************)
C3_CullingRule ==
    Walked =>
        \A s \in DOMAIN LastShapes \ {NilId} :
            CountEvId("render_shape_tree", s) > 0 =>
                IF CulledIn(LastShapes, viewbox, s)
                THEN /\ CountEvId("render_single_shape", s) = 0
                     /\ CountEvId("render_fill", s) = 0
                     /\ CountEvId("draw_drawing_on_final", s) = 0
                     /\ \A k \in DOMAIN LastShapes[s].children :
                            CountEvId("render_shape_tree", LastShapes[s].children[k]) = 0
                     /\ CountDebugRect(s, 0) = 1
                     /\ CountDebugRect(s, 1) = 0
                ELSE /\ CountDebugRect(s, 1) = 1
                     /\ CountDebugRect(s, 0) = 0
                     /\ CountEvId("render_single_shape", s) = 1
                     /\ CountEvId("draw_drawing_on_final", s) = 1

C3_Witness ==
    /\ Walked
    /\ last.a >= 2
    /\ LastShapes[1].hidden
    /\ CountDebugRect(1, 0) = 1
    /\ CountEvId("render_shape_tree", 2) = 0
    /\ \E s \in DOMAIN LastShapes \ {NilId} : CountDebugRect(s, 1) = 1

(***************************************************************************)
(* C4.  navigate on a dirty cached frame does a full, forced render: the   *)
(* tree is walked, and the record is replaced by one holding the current   *)
(* viewbox, the walk's result and the snapshot of what the walk drew.      *)
(***************************************************************************)
C4_DirtyNavigateRerenders ==
    (last.op = "navigate" /\ last.pre # None /\ Dirty(last.pre[1], viewbox)) =>
        /\ last.result = "Ok"
        /\ Walked
        /\ CountEv("image_snapshot") = 1
        /\ CountEv("draw_image") = 0
        /\ cached_surface_image # None
        /\ cached_surface_image[1].viewbox = viewbox
        /\ cached_surface_image[1].has_all_shapes = WalkResult(LastShapes, viewbox)
        /\ cached_surface_image[1].image.content = Composites(final_surface.content)

C4_Witness ==
    /\ last.op = "navigate" /\ last.pre # None /\ Dirty(last.pre[1], viewbox)
    /\ cached_surface_image # last.pre
    /\ Walked

(***************************************************************************)
(* C5.  navigate on a cached frame that is not dirty blits the snapshot    *)
(* and flushes once, without walking the tree and without touching the     *)
(* record; a complete record is never dirty, so after a complete render a  *)
(* navigate that follows a pan change takes this path.                     *)
(***************************************************************************)
C5_CleanNavigateBlits ==
    (last.op = "navigate" /\ last.pre # None /\ ~Dirty(last.pre[1], viewbox)) =>
        /\ last.result = "Ok"
        /\ ~Walked
        /\ Blitted
        /\ cached_surface_image = last.pre
        /\ Len(final_surface.content) = 1
        /\ final_surface.content[1].ev = "draw_image"
        /\ final_surface.content[1].px = last.pre[1].image.content

C5_Witness ==
    /\ last.op = "navigate" /\ last.pre # None
    /\ last.pre[1].has_all_shapes
    /\ last.pre[1].viewbox.pan_x # viewbox.pan_x
    /\ ~Walked /\ Blitted

(***************************************************************************)
(* C6.  The scenario: 800x600 at zoom 1 and pan (0,0), a root with one     *)
(* child inside the view, a complete cached frame; the zoom goes to 0.1    *)
(* and navigate is called.                                                 *)
(***************************************************************************)
C6_Scenario ==
    /\ last.op = "navigate"
    /\ last.a = 1 /\ last.b = 0 /\ last.c = 1
    /\ last.pre # None
    /\ last.pre[1].has_all_shapes
    /\ last.pre[1].viewbox = ViewboxNew(800, 600)
    /\ Len(last.pre[1].image.content) = 1
    /\ viewbox = set_all(ViewboxNew(800, 600), 1, 0, 0)

\* as claimed: the dirty check fires and the tree is walked again
C6_ZoomOutRerenders == C6_Scenario => Walked

\* as the code has it: the record is complete, so it is not dirty, and the zoomed-out
\* frame is the blitted snapshot
C6_ZoomOutBlits ==
    C6_Scenario =>
        /\ ~is_dirty(last.pre[1], viewbox)
        /\ ~Walked
        /\ Blitted
        /\ cached_surface_image = last.pre

C6_Witness == C6_Scenario /\ ~FullyContained(viewbox.area, last.pre[1].viewbox.area)

(***************************************************************************)
(* C7.  navigate without a cached frame changes nothing: no surface is     *)
(* cleared, no shape visited, nothing flushed, the record stays absent,    *)
(* and the call succeeds.                                                  *)
(***************************************************************************)
C7_NavigateWithoutCacheIsNoop ==
    [][(last'.op = "navigate" /\ cached_surface_image = None) =>
          /\ UNCHANGED <<final_surface, drawing_surface, debug_surface,
                         cached_surface_image, options, viewbox, images>>
          /\ trace' = <<>>
          /\ last'.result = "Ok"]_vars

C7_Witness == last.op = "navigate" /\ last.pre = None /\ cached_surface_image = None

(***************************************************************************)
(* C8.  render_all replaces the cached-frame record iff force is set or    *)
(* no record exists; the new record holds the current viewbox and the      *)
(* walk's result; otherwise the record is left as it was.                  *)
(***************************************************************************)
C8_RenderAllReplacesIffForcedOrAbsent ==
    [][last'.op = "render_all" =>
          IF last'.force \/ cached_surface_image = None
          THEN /\ CountEv("image_snapshot")' = 1
               /\ cached_surface_image' # None
               /\ cached_surface_image'[1].viewbox = viewbox'
               /\ cached_surface_image'[1].has_all_shapes = WalkResult(LastShapes, viewbox)'
               /\ cached_surface_image'[1].image.w = final_surface'.w
               /\ cached_surface_image'[1].image.h = final_surface'.h
               /\ cached_surface_image'[1].image.content = Composites(final_surface.content)'
          ELSE /\ CountEv("image_snapshot")' = 0
               /\ cached_surface_image' = cached_surface_image]_vars

C8_Witness ==
    /\ last.op = "render_all" /\ ~last.force /\ last.pre # None
    /\ cached_surface_image = last.pre
    /\ cached_surface_image[1].viewbox # viewbox

(***************************************************************************)
(* C9.  As claimed: after any render_all, forced or not, the record holds  *)
(* that render's viewbox and walk result.                                  *)
(***************************************************************************)
C9_EveryRenderReplaces ==
    last.op = "render_all" =>
        /\ cached_surface_image # None
        /\ cached_surface_image[1].viewbox = viewbox
        /\ cached_surface_image[1].has_all_shapes = WalkResult(LastShapes, viewbox)

\* as the code has it: a record exists after every render_all; it is that render's
\* when the render was forced or found none, and the earlier one otherwise
C9_RenderLeavesARecord ==
    last.op = "render_all" =>
        /\ cached_surface_image # None
        /\ IF last.force \/ last.pre = None
           THEN /\ cached_surface_image[1].viewbox = viewbox
                /\ cached_surface_image[1].has_all_shapes = WalkResult(LastShapes, viewbox)
           ELSE cached_surface_image = last.pre

C9_Witness ==
    /\ last.op = "render_all" /\ last.force /\ last.pre # None
    /\ last.pre[1].viewbox # viewbox
    /\ cached_surface_image[1].viewbox = viewbox

(***************************************************************************)
(* C10.  The three surfaces always have the same pixel size, which is      *)
(* (floor(w * dpr), floor(h * dpr)) for the viewbox's logical size (w, h)  *)
(* and the current ratio (1.0 while none is set); after resize(w, h) the   *)
(* logical size is (w, h).                                                 *)
(***************************************************************************)
IsFloorOfProduct(pix, w, d) == DprUnit * pix <= w * d /\ w * d < DprUnit * (pix + 1)

CurrentRatio == IF options.dpr = None THEN DprUnit ELSE options.dpr[1]

C10_SurfaceSizes ==
    /\ drawing_surface.w = final_surface.w /\ drawing_surface.h = final_surface.h
    /\ debug_surface.w = final_surface.w /\ debug_surface.h = final_surface.h
    /\ IsFloorOfProduct(final_surface.w, viewbox.width, CurrentRatio)
    /\ IsFloorOfProduct(final_surface.h, viewbox.height, CurrentRatio)
    /\ last.op = "resize" => (viewbox.width = last.a /\ viewbox.height = last.b)

C10_Witness ==
    /\ last.op = "set_dpr"
    /\ options.dpr = Some(7)
    /\ viewbox.width = 401 /\ viewbox.height = 301
    /\ final_surface.w = 1403 /\ final_surface.h = 1053
    /\ debug_surface.w = 1403 /\ drawing_surface.h = 1053

(***************************************************************************)
(* C11.  As claimed: of two set_dpr calls in a row with the same value,    *)
(* the first reallocates the surfaces once and the second changes nothing. *)
(***************************************************************************)
Reallocations == CountEv("create_target_surface")

\* the step is a set_dpr that repeats the value of the set_dpr just before it
SecondSetDpr == last'.op = "set_dpr" /\ last'.b = 1

C11_ExactlyOneReallocation ==
    [][SecondSetDpr =>
          /\ last'.c = 1
          /\ Reallocations' = 0
          /\ UNCHANGED <<final_surface, drawing_surface, debug_surface,
                         cached_surface_image, options, viewbox, images>>]_vars

\* as the code has it: a set_dpr reallocates once when its value differs from the
\* stored override (an absent override differs from every value) and not at all
\* when it is the stored one, so the second of two equal calls changes nothing and
\* the two together reallocate at most once
C11_AtMostOneReallocation ==
    [][last'.op = "set_dpr" =>
          /\ Reallocations' = IF Some(last'.a) # options.dpr THEN 1 ELSE 0
          /\ SecondSetDpr =>
                 /\ last'.c <= 1
                 /\ Reallocations' = 0
                 /\ UNCHANGED <<final_surface, drawing_surface, debug_surface,
                                cached_surface_image, options, viewbox, images>>]_vars

\* the second of two set_dpr(2.0) calls, the first of which reallocated
C11_Witness ==
    /\ last.op = "set_dpr" /\ last.a = 4 /\ last.b = 1 /\ last.c = 1
    /\ options.dpr = Some(4)
    /\ Reallocations = 0
    /\ final_surface.w = 2 * viewbox.width

(***************************************************************************)
(* C12.  set_dpr(r) reallocates the surfaces only when r differs from the  *)
(* current ratio (1.0 while none is set); when r is the current ratio the  *)
(* call reallocates nothing and leaves the options as they were; when it   *)
(* reallocates, the viewbox's logical width and height are kept.           *)
(***************************************************************************)
C12_SetDprNoopWhenEqual ==
    [][last'.op = "set_dpr" =>
          /\ Reallocations' > 0 => last'.a # CurrentRatio
          /\ last'.a = CurrentRatio => (Reallocations' = 0 /\ options' = options)
          /\ Reallocations' > 0 =>
                 (viewbox'.width = viewbox.width /\ viewbox'.height = viewbox.height)]_vars

(***************************************************************************)
(* C13.  Every render_all runs its steps in this order: the three surfaces *)
(* are cleared and their transforms reset; the drawing surface is scaled   *)
(* by zoom * dpr and translated by the pan; the tree is walked from the    *)
(* root id; the snapshot, if any, is taken; the debug overlay is           *)
(* composited onto the final surface iff the debug-visible bit is set; the *)
(* final surface is flushed, once, and nothing is drawn after the flush.   *)
(***************************************************************************)
RenderAllRan == trace # <<>> /\ trace[1].ev = "render_all"

\* the step of render_all a call belongs to
StepOf(e) ==
    IF e.ev = "render_all" THEN 0
    ELSE IF e.ev \in {"clear_final", "clear_debug"} \/ (e.ev = "clear_drawing" /\ e.id = NilId)
    THEN 1
    ELSE IF e.ev = "image_snapshot" THEN 4
    ELSE IF e.ev \in {"render_debug_view", "draw_debug_on_final"} THEN 5
    ELSE IF e.ev = "flush" THEN 6
    ELSE 3

\* the transform render_all gives the drawing surface
ViewTransform ==
    <<Mat("scale", viewbox.zoom * CurrentRatio, viewbox.zoom * CurrentRatio, ZoomUnit * DprUnit),
      Mat("translate", viewbox.pan_x, viewbox.pan_y, 1)>>

IsPrefix(p, s) == Len(p) <= Len(s) /\ SubSeq(s, 1, Len(p)) = p

C13_RenderAllOrder ==
    RenderAllRan =>
        /\ Len(trace) >= 6
        /\ \A i, j \in DOMAIN trace : i < j => StepOf(trace[i]) <= StepOf(trace[j])
        \* (1) the three clears, in the code's order, on reset transforms
        /\ <<trace[2].ev, trace[3].ev, trace[4].ev>> = <<"clear_drawing", "clear_final", "clear_debug">>
        /\ final_surface.matrix = <<>> /\ debug_surface.matrix = <<>>
        \* (2) scale, then translate, after the reset and before any shape is drawn
        /\ drawing_surface.matrix = ViewTransform
        /\ \A i \in DOMAIN final_surface.content :
               \A k \in DOMAIN final_surface.content[i].px :
                   final_surface.content[i].ev = "draw_surface" =>
                       IsPrefix(ViewTransform, final_surface.content[i].px[k].m)
        \* (3) the walk starts at the root id
        /\ trace[5].ev = "render_shape_tree" /\ trace[5].id = NilId
        \* (4) at most one snapshot
        /\ CountEv("image_snapshot") <= 1
        \* (5) the overlay is composited iff the bit is set, after all shapes
        /\ CountEv("draw_debug_on_final") = (IF options.debug_flags % 2 = 1 THEN 1 ELSE 0)
        /\ CountEv("draw_debug_on_final") = 1 =>
               final_surface.content[Len(final_surface.content)].ev = "draw_debug_surface"
        /\ CountEv("draw_debug_on_final") = 0 =>
               \A i \in DOMAIN final_surface.content : final_surface.content[i].ev = "draw_surface"
        \* (6) one flush, the last call
        /\ CountEv("flush") = 1
        /\ trace[Len(trace)].ev = "flush"

C13_Witness ==
    /\ RenderAllRan /\ last.op = "render_all" /\ last.force
    /\ options.debug_flags = DEBUG_VISIBLE
    /\ viewbox.pan_x = 50
    /\ CountEv("image_snapshot") = 1
    /\ CountEv("draw_debug_on_final") = 1
    /\ CountEv("draw_drawing_on_final") >= 2

(***************************************************************************)
(* C14.  add_image(id, bytes): if the bytes decode, the table afterwards   *)
(* maps id to the new image, every other entry is as before, has_image(id) *)
(* is true and the call returns Ok; if they do not decode, the call        *)
(* returns an error and the table and the rest of the state are as before. *)
(* has_image answers whether the table has the id and changes nothing.     *)
(***************************************************************************)
RestOfState ==
    <<final_surface, drawing_surface, debug_surface, cached_surface_image, options, viewbox>>

C14_AddImageAndHasImage ==
    [][/\ last'.op = "add_image" =>
              /\ UNCHANGED RestOfState
              /\ IF last'.b # "bad"
                 THEN /\ last'.result = "Ok"
                      /\ DOMAIN images' = DOMAIN images \cup {last'.a}
                      /\ images'[last'.a] = last'.b
                      /\ \A i \in DOMAIN images \ {last'.a} : images'[i] = images[i]
                      /\ has_image([images |-> images'], last'.a)
                 ELSE /\ last'.result = "Err"
                      /\ images' = images
       /\ last'.op = "has_image" =>
              /\ UNCHANGED RestOfState
              /\ images' = images
              /\ last'.result = "true" <=> last'.a \in DOMAIN images]_vars

\* an entry was overwritten by other bytes while another entry was in the table
C14_Witness ==
    /\ last.op = "add_image" /\ last.result = "Ok"
    /\ last.a = 1 /\ last.b = "gif" /\ last.c = 1
    /\ DOMAIN images = {1, 2}
    /\ images[1] = "gif" /\ images[2] = "png"
    /\ cached_surface_image # None

(***************************************************************************)
(* C15.  In a tree walk, an image fill whose id is not in the image table  *)
(* produces no draw call and no error: for every rendered shape, the draw  *)
(* calls are those of its other fills, last declared first; the shape is   *)
(* composited once, carrying exactly those layers; every shape the walk    *)
(* reaches is visited; and the operation succeeds.                         *)
(***************************************************************************)
DrawCalls == {"draw_image_in_container", "svg_render", "draw_path"}

MissingImage(fill) == fill.kind = "Image" /\ fill.id \notin DOMAIN images

DrawCallOf(shape, k) ==
    IF shape.fills[k].kind = "Image" THEN "draw_image_in_container"
    ELSE IF shape.kind = "Rect" THEN "svg_render" ELSE "draw_path"

\* the draw calls of fills k, k-1, ..., 1 of a shape, leaving out missing images
RECURSIVE LayersFrom(_, _)
LayersFrom(shape, k) ==
    IF k = 0 THEN <<>>
    ELSE (IF MissingImage(shape.fills[k]) THEN <<>> ELSE <<Ev(DrawCallOf(shape, k), shape.id, k)>>)
             \o LayersFrom(shape, k - 1)

Layers(shape) == LayersFrom(shape, Len(shape.fills))

\* the layers carried by the composites of shape s on the final surface
CompositesOf(s) ==
    SelectSeq(final_surface.content, LAMBDA it : it.ev = "draw_surface" /\ it.id = s)

LayersOfItem(it) == [k \in DOMAIN it.px |-> Ev(it.px[k].ev, it.px[k].id, it.px[k].arg)]

C15_MissingImageSkipped ==
    Walked =>
        /\ last.result = "Ok"
        /\ \A s \in Reached(LastShapes, viewbox) : CountEvId("render_shape_tree", s) = 1
        /\ \A s \in DOMAIN LastShapes \ {NilId} :
               CountEvId("render_single_shape", s) = 1 =>
                   /\ SelectSeq(trace, LAMBDA e : e.ev \in DrawCalls /\ e.id = s)
                          = Layers(LastShapes[s])
                   /\ CountEvId("draw_drawing_on_final", s) = 1
                   /\ Len(CompositesOf(s)) = 1
                   /\ LayersOfItem(CompositesOf(s)[1]) = Layers(LastShapes[s])

\* shapes 1 and 2 declare an image fill for id 1, which is not in the table
C15_Witness ==
    /\ Walked /\ last.a >= 2
    /\ DOMAIN images = {2}
    /\ MissingImage(LastShapes[1].fills[2])
    /\ CountEvId("render_fill", 1) = 2
    /\ CountEvId("svg_render", 1) = 1
    /\ CountEvId("draw_image_in_container", 1) = 0
    /\ CountEvId("render_fill", 2) = 2
    /\ CountEvId("draw_path", 2) = 1
    /\ CountEvId("render_single_shape", 3) = 1

(***************************************************************************)
(* C16.  In every state reachable through the public operations, navigate  *)
(* returns success: the cached redraw runs only when a record exists, so   *)
(* its "Uninitialized cached surface image" error is never produced.       *)
(***************************************************************************)
C16_NavigateNeverFails ==
    /\ last.result # "Err" \/ last.op = "add_image"
    /\ last.op = "navigate" => last.result = "Ok"
    /\ CountEv("render_all_from_cache") > 0 =>
           /\ last.op = "navigate"
           /\ last.pre # None
           /\ Blitted

\* a cached redraw after every kind of public operation has left its mark
C16_Witness ==
    /\ last.op = "navigate" /\ Blitted
    /\ options.dpr = Some(4) /\ options.debug_flags = DEBUG_VISIBLE
    /\ viewbox.width = 400 /\ viewbox.zoom = 20
    /\ DOMAIN images = {1}
    /\ ~cached_surface_image[1].has_all_shapes

(***************************************************************************)
(* C17.  The walk from the root returns true iff the visible area fully    *)
(* contains the rectangle of the root and of every visited shape, the      *)
(* visited shapes being the root and every shape with no culled proper     *)
(* ancestor.  The result is read from the record a render stores.          *)
(***************************************************************************)
\* every corner of r lies in a
LiesWithin(r, a) ==
    \A x \in {r.left, r.right}, y \in {r.top, r.bottom} : PointIn(x, y, a)

C17_ResultIffAllVisitedContained ==
    (Walked /\ CountEv("image_snapshot") = 1) =>
        (cached_surface_image[1].has_all_shapes
            <=> \A i \in Reached(LastShapes, viewbox) :
                    LiesWithin(LastShapes[i].selrect, viewbox.area))

(***************************************************************************)
(* C18.  Every call of render_shape_tree returns with the save depth and   *)
(* the transform of the final and of the drawing canvas as they were on    *)
(* entry, on the cull path as on the normal path.  So the fills of a shape *)
(* are drawn under the view transform followed by the transforms of its    *)
(* ancestors and its own, and under no sibling's; and after a render_all   *)
(* both save stacks are as deep as before the walk.                        *)
(***************************************************************************)
Entries == {i \in DOMAIN trace : trace[i].ev = "render_shape_tree"}
Returns == {i \in DOMAIN trace : trace[i].ev = "return_shape_tree"}

\* the return that belongs to the entry at i
ReturnOf(i) == CHOOSE j \in Returns : j > i /\ trace[j].id = trace[i].id

\* the transforms of the shapes on the path from the root to shape i, outermost first
RECURSIVE PathTransform(_, _)
PathTransform(shapes, i) ==
    IF i = NilId THEN <<>>
    ELSE PathTransform(shapes, ParentOf(shapes, i)) \o <<Mat("concat", i, 0, 1)>>

C18_StackDiscipline ==
    Walked =>
        /\ \A i \in Entries :
               /\ Cardinality({j \in Returns : trace[j].id = trace[i].id}) = 1
               /\ \E j \in Returns : j > i /\ trace[j].id = trace[i].id
               /\ trace[ReturnOf(i)].final = trace[i].final
               /\ trace[ReturnOf(i)].drawing = trace[i].drawing
        /\ \A i \in DOMAIN final_surface.content :
               final_surface.content[i].ev = "draw_surface" =>
                   /\ final_surface.content[i].m = <<>>
                   /\ \A k \in DOMAIN final_surface.content[i].px :
                          final_surface.content[i].px[k].m =
                              ViewTransform \o PathTransform(LastShapes, final_surface.content[i].id)
        /\ Len(final_surface.stack) = trace[5].final.depth
        /\ Len(drawing_surface.stack) = trace[5].drawing.depth
        /\ final_surface.matrix = trace[5].final.matrix
        /\ drawing_surface.matrix = trace[5].drawing.matrix

\* shape 2 was entered two saves deep and drawn under shape 1's transform; shape 3,
\* the sibling after shape 1, was drawn under its own only
C18_Witness ==
    /\ Walked /\ last.a = 3
    /\ CountEvId("render_single_shape", 1) = 1
    /\ CountEvId("render_single_shape", 2) = 1
    /\ CountEvId("render_single_shape", 3) = 1
    /\ \E i \in Entries :
           /\ trace[i].id = 2 /\ trace[i].drawing.depth = 2
           /\ trace[i].drawing.matrix = ViewTransform \o <<Mat("concat", 1, 0, 1)>>
    /\ \E i \in DOMAIN final_surface.content :
           /\ final_surface.content[i].id = 3
           /\ final_surface.content[i].ev = "draw_surface"
           /\ final_surface.content[i].px[1].m = ViewTransform \o <<Mat("concat", 3, 0, 1)>>

(***************************************************************************)
(* C19.  In a tree walk, for every rendered shape: the scratch surface     *)
(* holds only this shape's layers when it is composited (it was clear when *)
(* the shape started); the fills are rendered last declared first; the     *)
(* scratch surface is composited onto the final surface once, with the     *)
(* shape's opacity and blend mode, and cleared right after.  The shapes    *)
(* are composited in depth-first pre-order, children in declared order.    *)
(***************************************************************************)
\* the calls of the last handler that concern shape s, in order
CallsOf(s, names) == SelectSeq(trace, LAMBDA e : e.ev \in names /\ e.id = s)

\* depth-first pre-order of the shapes that are rendered, children in declared order
RECURSIVE PreOrder(_, _, _)
RECURSIVE PreOrderOfAll(_, _, _, _)
PreOrder(shapes, vb, i) ==
    IF i # NilId /\ CulledIn(shapes, vb, i) THEN <<>>
    ELSE (IF i = NilId THEN <<>> ELSE <<i>>)
             \o PreOrderOfAll(shapes, vb, shapes[i].children, 1)
PreOrderOfAll(shapes, vb, ids, k) ==
    IF k > Len(ids) THEN <<>>
    ELSE PreOrder(shapes, vb, ids[k]) \o PreOrderOfAll(shapes, vb, ids, k + 1)

C19_IsolationAndOrder ==
    Walked =>
        /\ \A s \in DOMAIN LastShapes \ {NilId} :
               CountEvId("render_single_shape", s) = 1 =>
                   LET n == Len(LastShapes[s].fills)
                       calls == CallsOf(s, {"render_single_shape", "render_fill",
                                            "draw_drawing_on_final", "clear_drawing"})
                   IN  /\ Len(calls) = n + 3
                       /\ calls[1].ev = "render_single_shape"
                       /\ \A k \in 1..n : calls[1 + k] = Ev("render_fill", s, n + 1 - k)
                       /\ calls[n + 2].ev = "draw_drawing_on_final"
                       /\ calls[n + 3].ev = "clear_drawing"
                       /\ \E i \in DOMAIN trace :
                              /\ trace[i] = Ev("draw_drawing_on_final", s, 0)
                              /\ trace[i + 1] = Ev("clear_drawing", s, 0)
                       /\ Len(CompositesOf(s)) = 1
                       /\ CompositesOf(s)[1].arg = [blend_mode |-> LastShapes[s].blend_mode,
                                                    alpha |-> LastShapes[s].opacity]
                       /\ \A k \in DOMAIN CompositesOf(s)[1].px : CompositesOf(s)[1].px[k].id = s
        /\ drawing_surface.content = <<>>
        /\ [i \in DOMAIN Composites(final_surface.content) |->
                Composites(final_surface.content)[i].id] = PreOrder(LastShapes, viewbox, NilId)

\* three shapes, the second a child of the first; two of them with two fills
C19_Witness ==
    /\ Walked /\ last.a = 3
    /\ PreOrder(LastShapes, viewbox, NilId) = <<1, 2, 3>>
    /\ CallsOf(1, {"render_fill"}) = <<Ev("render_fill", 1, 2), Ev("render_fill", 1, 1)>>
    /\ Len(CompositesOf(1)[1].px) = 1
    /\ CompositesOf(2)[1].arg.alpha = 50
    /\ CompositesOf(3)[1].arg.blend_mode = "Multiply"

(***************************************************************************)
(* C20.  When navigate blits the snapshot and the ratio is the one in      *)
(* force when the snapshot was taken, every scene point lands on the pixel *)
(* where a full render under the new viewbox puts it: with cached zoom cz  *)
(* and pan cp, new zoom z and pan p, and ratio d, the snapshot holds the   *)
(* point q at cz*d*(q + cp), and the blit's scale z/cz after its           *)
(* translation cz*(p - cp)*d moves that pixel to z*d*(q + p).  With an     *)
(* unchanged viewbox the blit's scale is 1 and its translation (0,0).      *)
(* Coordinates are exact fractions x/den, y/den.                           *)
(***************************************************************************)
ScenePoints == {<<0, 0>>, <<100, 100>>, <<690, 520>>, <<-50, 30>>}

Pt(x, y) == [x |-> x, y |-> y, den |-> 1]

SamePoint(p, q) == p.x * q.den = q.x * p.den /\ p.y * q.den = q.y * p.den

ApplyMat(M, p) ==
    IF M.op = "scale"
    THEN [x |-> p.x * M.a, y |-> p.y * M.b, den |-> p.den * M.den]
    ELSE [x |-> p.x * M.den + M.a * p.den, y |-> p.y * M.den + M.b * p.den,
          den |-> p.den * M.den]

\* the image of p under the canvas transform built by the calls ms, first call first
RECURSIVE ApplyAll(_, _)
ApplyAll(ms, p) ==
    IF ms = <<>> THEN p ELSE ApplyMat(ms[1], ApplyAll(Tail(ms), p))

\* zoom * d * (q + pan)
FullRenderPixel(vb, d, q) ==
    [x |-> vb.zoom * d * (q[1] + vb.pan_x), y |-> vb.zoom * d * (q[2] + vb.pan_y),
     den |-> ZoomUnit * DprUnit]

\* the snapshot in the record was taken under the current ratio
SameRatioAsSnapshot(c) ==
    /\ c.image.w * DprUnit = c.viewbox.width * CurrentRatio
    /\ c.image.h * DprUnit = c.viewbox.height * CurrentRatio

FastPath ==
    /\ last.op = "navigate" /\ last.pre # None
    /\ CountEv("draw_image") = 1
    /\ SameRatioAsSnapshot(last.pre[1])

C20_FastPathGeometry ==
    FastPath =>
        LET cvb == last.pre[1].viewbox
            blit == final_surface.content[1].m
        IN  /\ Len(blit) = 2
            /\ \A q \in ScenePoints :
                   /\ SamePoint(ApplyAll(ViewTransform, Pt(q[1], q[2])),
                                FullRenderPixel(viewbox, CurrentRatio, q))
                   /\ SamePoint(ApplyAll(blit, FullRenderPixel(cvb, CurrentRatio, q)),
                                FullRenderPixel(viewbox, CurrentRatio, q))
            /\ cvb = viewbox =>
                   /\ blit[1].op = "scale" /\ blit[1].a = blit[1].den /\ blit[1].b = blit[1].den
                   /\ blit[2].op = "translate" /\ blit[2].a = 0 /\ blit[2].b = 0

\* a snapshot taken zoomed out at ratio 2.0 is blitted after zooming in and panning
C20_Witness ==
    /\ FastPath
    /\ options.dpr = Some(4)
    /\ last.pre[1].viewbox.zoom = 1 /\ last.pre[1].viewbox.pan_x = 0
    /\ viewbox.zoom = 10 /\ viewbox.pan_x = 50
    /\ final_surface.content[1].m[2].a # 0

(***************************************************************************)
(* C21.  A navigate that takes the cached redraw leaves the record (its    *)
(* snapshot, viewbox and completeness flag), the viewbox, the image table, *)
(* the options and the pixel size of the three surfaces as they were, and  *)
(* the save depth of the final and of the drawing canvas is afterwards     *)
(* what it was before.                                                     *)
(***************************************************************************)
PixelSizes ==
    <<final_surface.w, final_surface.h, drawing_surface.w, drawing_surface.h,
      debug_surface.w, debug_surface.h>>

SaveDepths == <<Len(final_surface.stack), Len(drawing_surface.stack)>>

C21_CachedRedrawKeepsState ==
    [][(last'.op = "navigate" /\ CountEv("render_all_from_cache")' = 1) =>
          /\ cached_surface_image # None
          /\ cached_surface_image' = cached_surface_image
          /\ UNCHANGED <<viewbox, images, options>>
          /\ PixelSizes' = PixelSizes
          /\ SaveDepths' = SaveDepths]_vars

\* a blit under a viewbox, a ratio and a surface size that are not the snapshot's
C21_Witness ==
    /\ last.op = "navigate" /\ Blitted
    /\ cached_surface_image = last.pre
    /\ cached_surface_image[1].viewbox # viewbox
    /\ cached_surface_image[1].image.w # final_surface.w
    /\ options.dpr = Some(4)
    /\ DOMAIN images = {1}
    /\ SaveDepths = <<0, 0>>

(***************************************************************************)
(* C22.  As claimed: for every table whose child ids resolve and whose     *)
(* child relation from the root is acyclic, a render pass runs to          *)
(* completion and calls render_shape_tree at most once per shape.          *)
(***************************************************************************)
\* how often shape s is listed as a child
Listings(shapes, s) ==
    Cardinality({pk \in (DOMAIN shapes) \X (1..(MaxShapes + 1)) :
                    /\ pk[2] \in DOMAIN shapes[pk[1]].children
                    /\ shapes[pk[1]].children[pk[2]] = s})

\* every child id resolves
Resolves(shapes) ==
    \A p \in DOMAIN shapes : \A k \in DOMAIN shapes[p].children :
        shapes[p].children[k] \in DOMAIN shapes

\* every shape but the root is listed as a child exactly once
IsTree(shapes) ==
    /\ Listings(shapes, NilId) = 0
    /\ \A s \in DOMAIN shapes \ {NilId} : Listings(shapes, s) = 1

\* the pass ran to its end: every call of the walk returned, and the handler's last
\* call is the flush
RanToCompletion ==
    /\ last.result = "Ok"
    /\ Cardinality(Entries) = Cardinality(Returns)
    /\ trace[Len(trace)].ev = "flush"

C22_AtMostOnePerShape ==
    (Walked /\ Resolves(LastShapes)) =>
        /\ RanToCompletion
        /\ \A s \in DOMAIN LastShapes : CountEvId("render_shape_tree", s) <= 1

\* as the code has it: the pass runs to completion for all these tables; a shape is
\* visited at most as often as it is listed, so at most once when the table is a tree
C22_AtMostOncePerListing ==
    (Walked /\ Resolves(LastShapes)) =>
        /\ RanToCompletion
        /\ CountEvId("render_shape_tree", NilId) = 1
        /\ \A s \in DOMAIN LastShapes \ {NilId} :
               CountEvId("render_shape_tree", s) <= Listings(LastShapes, s)
        /\ IsTree(LastShapes) =>
               \A s \in DOMAIN LastShapes : CountEvId("render_shape_tree", s) <= 1

\* shape 2, listed by shapes 1 and 3, was visited twice in one pass
C22_Witness ==
    /\ Walked /\ last.c = 2
    /\ ~IsTree(LastShapes)
    /\ Listings(LastShapes, 2) = 2
    /\ CountEvId("render_shape_tree", 2) = 2
    /\ RanToCompletion

(***************************************************************************)
(* C23.  While the record is marked complete, every navigate blits it and  *)
(* walks no tree, whatever the viewbox, the size, the ratio and the table  *)
(* handed in have become; a complete record is replaced only by a forced   *)
(* render_all; and a record, once created, never becomes absent.           *)
(***************************************************************************)
HasCompleteRecord ==
    cached_surface_image # None /\ cached_surface_image[1].has_all_shapes

C23_CompleteRecordIsSticky ==
    [][/\ (HasCompleteRecord /\ last'.op = "navigate") =>
              /\ last'.result = "Ok"
              /\ CountEv("render_all_from_cache")' = 1
              /\ CountEv("render_shape_tree")' = 0
              /\ CountEv("draw_image")' = 1
              /\ cached_surface_image' = cached_surface_image
       /\ (HasCompleteRecord /\ cached_surface_image' # cached_surface_image) =>
              (last'.op = "render_all" /\ last'.force)
       /\ cached_surface_image # None => cached_surface_image' # None]_vars

\* a complete one-shape snapshot taken at 800x600 is blitted for another table, after
\* a resize, a ratio change and a zoom, into a view its own view does not contain
C23_Witness ==
    /\ last.op = "navigate" /\ Blitted /\ ~Walked
    /\ last.a = MaxShapes
    /\ last.pre # None /\ last.pre[1].has_all_shapes
    /\ Len(last.pre[1].image.content) = 1
    /\ last.pre[1].viewbox.width = 800 /\ viewbox.width = 400
    /\ options.dpr = Some(4)
    /\ ~FullyContained(viewbox.area, last.pre[1].viewbox.area)

(***************************************************************************)
(* C24.  resize, set_dpr, set_debug_flags and add_image leave the record   *)
(* as it was.  So after a resize or a ratio change the record still holds  *)
(* the snapshot of the old pixel size, and a navigate that follows and     *)
(* finds the record not dirty blits that snapshot onto the new surfaces    *)
(* without walking the tree.                                               *)
(***************************************************************************)
C24_MutatorsKeepRecord ==
    [][/\ last'.op \in {"resize", "set_dpr", "set_debug_flags", "add_image"} =>
              cached_surface_image' = cached_surface_image
       /\ (/\ last.op \in {"resize", "set_dpr"}
           /\ last'.op = "navigate"
           /\ cached_surface_image # None
           /\ ~Dirty(cached_surface_image[1], viewbox)) =>
              /\ CountEv("draw_image")' = 1
              /\ CountEv("render_shape_tree")' = 0
              /\ cached_surface_image' = cached_surface_image
              /\ Len(final_surface'.content) = 1
              /\ final_surface'.content[1].px = cached_surface_image[1].image.content
              /\ final_surface'.content[1].id = cached_surface_image[1].image.w
              /\ final_surface'.content[1].arg = cached_surface_image[1].image.h
              /\ PixelSizes' = PixelSizes]_vars

\* an 800x600 snapshot blitted onto surfaces reallocated at 400x300
C24_Witness ==
    /\ last.op = "navigate" /\ Blitted
    /\ cached_surface_image[1].image.w = 800
    /\ final_surface.content[1].id = 800 /\ final_surface.content[1].arg = 600
    /\ final_surface.w = 400 /\ final_surface.h = 300
    /\ options.dpr = None

(***************************************************************************)
(* C25.  The snapshot in the record never holds the debug overlay: a       *)
(* render_all takes it after the walk and before the overlay is composited *)
(* onto the final surface, whatever the debug-visible bit is; and the      *)
(* cached redraw composites no overlay, so its frame is the blitted        *)
(* snapshot alone even when the bit is set.                                *)
(***************************************************************************)
IndexOf(e) == CHOOSE i \in DOMAIN trace : trace[i].ev = e

OverlayCalls == {"render_debug_view", "draw_debug_on_final"}

C25_SnapshotWithoutOverlay ==
    /\ cached_surface_image # None =>
           \A i \in DOMAIN cached_surface_image[1].image.content :
               cached_surface_image[1].image.content[i].ev = "draw_surface"
    /\ (RenderAllRan /\ CountEv("image_snapshot") = 1) =>
           /\ \A i \in DOMAIN trace :
                  /\ StepOf(trace[i]) = 3 => i < IndexOf("image_snapshot")
                  /\ trace[i].ev \in OverlayCalls => i > IndexOf("image_snapshot")
           /\ cached_surface_image[1].image.content = Composites(final_surface.content)
           /\ is_debug_visible(options) =>
                  /\ Len(final_surface.content) = Len(cached_surface_image[1].image.content) + 1
                  /\ final_surface.content[Len(final_surface.content)].ev = "draw_debug_surface"
    /\ CountEv("render_all_from_cache") = 1 =>
           /\ \A i \in DOMAIN trace : trace[i].ev \notin OverlayCalls
           /\ debug_surface.content = <<>>
           /\ Len(final_surface.content) = 1
           /\ final_surface.content[1].ev = "draw_image"
           /\ \A k \in DOMAIN final_surface.content[1].px :
                  final_surface.content[1].px[k].ev = "draw_surface"

\* a forced render with the bit set: the final surface carries the overlay on top of
\* three shapes, the snapshot the three shapes only
C25_Witness ==
    /\ last.op = "render_all" /\ last.force
    /\ is_debug_visible(options)
    /\ CountEv("image_snapshot") = 1
    /\ Len(cached_surface_image[1].image.content) = 3
    /\ Len(final_surface.content) = 4
    /\ final_surface.content[4].ev = "draw_debug_surface"
    /\ Len(final_surface.content[4].px) = 4

====
